---- MODULE Spec2Model ----
(***************************************************************************)
(* Model of src/src/utils/job_monitor.py: monitor_job polls the solver's   *)
(* status file, classifies the lines of the progress table, tracks the     *)
(* kinetic-energy minimum and returns a boolean.  The solver is a second   *)
(* process that creates and appends to the status file.                    *)
(*                                                                         *)
(* A line of text is a sequence of tokens; a token is a record giving its  *)
(* lexical kind (t), its word (w) and its numeric value (v).  Substring    *)
(* tests of the code are contiguous-token tests here, and a partially      *)
(* written line is a proper prefix of the tokens of the complete line.     *)
(***************************************************************************)
EXTENDS Integers, Sequences, FiniteSets, TLC

\* ---------------------------------------------------------------- bounds
\* Spec: largest number of lines the solver writes to the status file
MaxLines == 4
\* lines other than the anchor and well-formed increment rows, and increment
\* rows read before the solver has finished writing them, per file
MaxOdd == 1
\* kinetic-energy values written by the solver are 1..MaxKE
MaxKE == 4
\* polls that find the status file absent
MaxAbsent == 2
\* samples fed to the tracker in SpecKE
MaxSamples == 7
\* SpecTable: increment rows the solver writes below the table head
MaxRows == 5
\* SpecRace: lines the solver writes below the table head
MaxRace == 3
\* SpecStudy: values listed for one parameter of a study
MaxVals == 2
\* SpecLogger: loggers opened by init_logger
MaxLogs == 2
\* SpecLogger: log_func and log_section calls served by one logger, and calls
\* made while there is no logger
MaxMsgs == 2

\* ---------------------------------------------------------------- tokens
W(s) == [t |-> "word", w |-> s, v |-> 0]
I(n) == [t |-> "int", w |-> "", v |-> n]
EP(n) == [t |-> "E+", w |-> "", v |-> n]
EM(n) == [t |-> "E-", w |-> "", v |-> n]
HMS == [t |-> "time", w |-> "00:00:01", v |-> 0]

\* "pat in line"
Contains(line, pat) ==
    \E i \in 0..(Len(line) - Len(pat)) : SubSeq(line, i + 1, i + Len(pat)) = pat

\* line.startswith(pat)
StartsWith(line, pat) ==
    Len(line) >= Len(pat) /\ SubSeq(line, 1, Len(pat)) = pat

\* ch.isdigit() of the first character of a token
IsDigitFirst(tok) == tok.t \in {"int", "E+", "E-", "time"}

\* int(tok) does not raise ValueError
IntOk(tok) == tok.t = "int"

\* float(tok) does not raise ValueError
FloatOk(tok) == tok.t \in {"int", "E+", "E-"}

SUCCESS_MARK == <<W("THE ANALYSIS HAS"), W("COMPLETED SUCCESSFULLY")>>
ABORT_MARK == <<W("ANALYSIS"), W("ABORTED")>>
TERM_MARK == <<W("ANALYSIS"), W("TERMINATED")>>
ANCHOR_MARK == <<W("SOLUTION"), W("PROGRESS")>>

\* ---------------------------------------------------------------- status file lines
\* a well-formed increment row with kinetic energy ke
DataRow(ke) == <<I(1), EP(1), EP(1), HMS, EM(1), I(7), EP(ke), EP(ke)>>

\* the complete text of a line of kind k
FullText(k, ke) ==
    CASE k = "anchor" -> ANCHOR_MARK
      [] k = "blank" -> <<>>
      [] k = "succ" -> SUCCESS_MARK
      [] k = "abort" -> <<W("***ERROR")>> \o ABORT_MARK
      [] k = "term" -> TERM_MARK
      [] k = "both" -> SUCCESS_MARK \o TERM_MARK
      [] k = "hdrStep" -> <<W("STEP"), I(1), W("ORIGIN")>>
      [] k = "hdrSucc" -> <<W("STEP"), I(1), W("ORIGIN")>> \o SUCCESS_MARK
      [] k = "hdrCols" -> <<W("STEP"), W("TOTAL"), W("WALL")>>
      [] k = "hdrInc" -> <<W("INCREMENT"), W("TIME"), W("TIME")>>
      [] k = "critical" -> <<W("INSTANCE"), W("WITH"), W("CRITICAL"), W("ELEMENT")>>
      [] k = "frame" -> <<W("Output"), W("Field"), W("Frame"), I(1)>>
      [] k = "text" -> <<W("Total"), W("memory")>>
      [] k = "alpha" -> <<W("abc"), EP(1), EP(1), HMS, EP(1), W("x"), EM(1), EP(2)>>
      [] k = "badnum" -> <<I(1), EP(1), EP(1), HMS, EM(1), I(7), W("x"), EP(1)>>
      [] k = "short7" -> SubSeq(DataRow(ke), 1, 7)
      [] k = "short5" -> SubSeq(DataRow(ke), 1, 5)
      [] k = "data" -> DataRow(ke)

\* a file line: kind, kinetic energy (0 unless it is an increment row) and
\* the number of tokens written so far
Entry(k, ke, n) == [k |-> k, ke |-> ke, n |-> n]
NoLine == Entry("none", 0, 0)
Text(e) == SubSeq(FullText(e.k, e.ke), 1, e.n)
Complete(e) == e.n = Len(FullText(e.k, e.ke))
Whole(k, ke) == Entry(k, ke, Len(FullText(k, ke)))

OddKinds == {"blank", "succ", "abort", "term", "both", "hdrStep", "hdrSucc", "hdrCols",
             "hdrInc", "critical", "frame", "text", "alpha", "badnum",
             "short7", "short5"}

\* ---------------------------------------------------------------- classification
_find_solution_progress_section(lines) ==
    IF \E i \in 1..Len(lines) : Contains(Text(lines[i]), ANCHOR_MARK)
    THEN (CHOOSE i \in 1..Len(lines) :
              /\ Contains(Text(lines[i]), ANCHOR_MARK)
              /\ \A j \in 1..(i - 1) : ~Contains(Text(lines[j]), ANCHOR_MARK)) - 1
    ELSE 0 - 1

\* _is_header_line as it would be without the STEP ... ORIGIN pattern
_is_header_line_no_origin(line) ==
    \/ /\ StartsWith(line, <<W("STEP")>>)
       /\ Contains(line, <<W("TOTAL")>>)
       /\ Contains(line, <<W("WALL")>>)
    \/ StartsWith(line, <<W("INCREMENT")>>) /\ Contains(line, <<W("TIME")>>)

_is_header_line(line) ==
    \/ StartsWith(line, <<W("STEP")>>) /\ Contains(line, <<W("ORIGIN")>>)
    \/ /\ StartsWith(line, <<W("STEP")>>)
       /\ Contains(line, <<W("TOTAL")>>)
       /\ Contains(line, <<W("WALL")>>)
    \/ StartsWith(line, <<W("INCREMENT")>>) /\ Contains(line, <<W("TIME")>>)

_is_increment_data_line(line) ==
    /\ line # <<>>
    /\ IsDigitFirst(line[1])
    /\ \E i \in 1..Len(line) : line[i].t = "E+"
    /\ \E i \in 1..Len(line) : line[i].t = "E-"

\* _should_skip_line as it would be without the output-frame prefix
_should_skip_line_critical_only(line) ==
    StartsWith(line, <<W("INSTANCE"), W("WITH"), W("CRITICAL")>>)

_should_skip_line(line) ==
    \/ StartsWith(line, <<W("INSTANCE"), W("WITH"), W("CRITICAL")>>)
    \/ StartsWith(line, <<W("Output"), W("Field"), W("Frame")>>)

\* _parse_increment_data returns a record rather than raising ValueError
\* (a token that does not convert) or IndexError (values[7] missing)
ParseOk(values) ==
    /\ Len(values) >= 8
    /\ IntOk(values[1])
    /\ FloatOk(values[2])
    /\ FloatOk(values[3])
    /\ FloatOk(values[5])
    /\ FloatOk(values[7])
    /\ FloatOk(values[8])

_parse_increment_data(values) ==
    [increment |-> values[1].v, kinetic_energy |-> values[7].v,
     total_energy |-> values[8].v]

\* ---------------------------------------------------------------- log output
Emit(e, i, l) == [e |-> e, i |-> i, line |-> l]

\* ---------------------------------------------------------------- tracker
\* an optional float: <<>> is None, <<x>> is the value x
None == <<>>
Some(x) == <<x>>

\* the number of consecutive increases at which the analysis is stopped
StopStreak == 3

\* _check_ke_minimum as it would be if a new minimum were judged against the
\* previous sample
_check_ke_minimum_vs_previous(kinetic_energy, previous_ke_, min_ke_, count) ==
    IF previous_ke_ = None
    THEN [min_ke |-> min_ke_, count |-> count, exit |-> FALSE, log |-> <<>>]
    ELSE IF min_ke_ = None \/ kinetic_energy < previous_ke_[1]
    THEN [min_ke |-> Some(kinetic_energy), count |-> 0, exit |-> FALSE, log |-> <<>>]
    ELSE IF kinetic_energy > previous_ke_[1]
    THEN IF count + 1 >= StopStreak
         THEN [min_ke |-> min_ke_, count |-> count + 1, exit |-> TRUE,
               log |-> <<Emit("rising", 0 - 1, NoLine), Emit("stop", 0 - 1, NoLine)>>]
         ELSE [min_ke |-> min_ke_, count |-> count + 1, exit |-> FALSE, log |-> <<>>]
    ELSE [min_ke |-> min_ke_, count |-> 0, exit |-> FALSE, log |-> <<>>]

\* _check_ke_minimum as it would be if the minimum were set once and kept
_check_ke_minimum_first_only(kinetic_energy, previous_ke_, min_ke_, count) ==
    IF previous_ke_ = None
    THEN [min_ke |-> min_ke_, count |-> count, exit |-> FALSE, log |-> <<>>]
    ELSE IF min_ke_ = None
    THEN [min_ke |-> Some(kinetic_energy), count |-> 0, exit |-> FALSE, log |-> <<>>]
    ELSE IF kinetic_energy > previous_ke_[1]
    THEN IF count + 1 >= StopStreak
         THEN [min_ke |-> min_ke_, count |-> count + 1, exit |-> TRUE,
               log |-> <<Emit("rising", 0 - 1, NoLine), Emit("stop", 0 - 1, NoLine)>>]
         ELSE [min_ke |-> min_ke_, count |-> count + 1, exit |-> FALSE, log |-> <<>>]
    ELSE [min_ke |-> min_ke_, count |-> 0, exit |-> FALSE, log |-> <<>>]

\* _check_ke_minimum as it would be if it stopped one increase early
_check_ke_minimum_early(kinetic_energy, previous_ke_, min_ke_, count) ==
    IF previous_ke_ = None
    THEN [min_ke |-> min_ke_, count |-> count, exit |-> FALSE, log |-> <<>>]
    ELSE IF min_ke_ = None \/ kinetic_energy < min_ke_[1]
    THEN [min_ke |-> Some(kinetic_energy), count |-> 0, exit |-> FALSE, log |-> <<>>]
    ELSE IF kinetic_energy > previous_ke_[1]
    THEN IF count + 1 >= StopStreak - 1
         THEN [min_ke |-> min_ke_, count |-> count + 1, exit |-> TRUE,
               log |-> <<Emit("rising", 0 - 1, NoLine), Emit("stop", 0 - 1, NoLine)>>]
         ELSE [min_ke |-> min_ke_, count |-> count + 1, exit |-> FALSE, log |-> <<>>]
    ELSE [min_ke |-> min_ke_, count |-> 0, exit |-> FALSE, log |-> <<>>]

\* _check_ke_minimum as it would be without the reset of the else branch
_check_ke_minimum_no_reset(kinetic_energy, previous_ke_, min_ke_, count) ==
    IF previous_ke_ = None
    THEN [min_ke |-> min_ke_, count |-> count, exit |-> FALSE, log |-> <<>>]
    ELSE IF min_ke_ = None \/ kinetic_energy < min_ke_[1]
    THEN [min_ke |-> Some(kinetic_energy), count |-> 0, exit |-> FALSE, log |-> <<>>]
    ELSE IF kinetic_energy > previous_ke_[1]
    THEN IF count + 1 >= StopStreak
         THEN [min_ke |-> min_ke_, count |-> count + 1, exit |-> TRUE,
               log |-> <<Emit("rising", 0 - 1, NoLine), Emit("stop", 0 - 1, NoLine)>>]
         ELSE [min_ke |-> min_ke_, count |-> count + 1, exit |-> FALSE, log |-> <<>>]
    ELSE [min_ke |-> min_ke_, count |-> count, exit |-> FALSE, log |-> <<>>]

\* _check_ke_minimum as it would be if the first sample were taken as the minimum
_check_ke_minimum_track_first(kinetic_energy, previous_ke_, min_ke_, count) ==
    IF min_ke_ = None \/ kinetic_energy < min_ke_[1]
    THEN [min_ke |-> Some(kinetic_energy), count |-> 0, exit |-> FALSE, log |-> <<>>]
    ELSE IF kinetic_energy > previous_ke_[1]
    THEN IF count + 1 >= StopStreak
         THEN [min_ke |-> min_ke_, count |-> count + 1, exit |-> TRUE,
               log |-> <<Emit("rising", 0 - 1, NoLine), Emit("stop", 0 - 1, NoLine)>>]
         ELSE [min_ke |-> min_ke_, count |-> count + 1, exit |-> FALSE, log |-> <<>>]
    ELSE [min_ke |-> min_ke_, count |-> 0, exit |-> FALSE, log |-> <<>>]

\* _check_ke_minimum as it would be if a new minimum left the streak as it was
_check_ke_minimum_keep_streak(kinetic_energy, previous_ke_, min_ke_, count) ==
    IF previous_ke_ = None
    THEN [min_ke |-> min_ke_, count |-> count, exit |-> FALSE, log |-> <<>>]
    ELSE IF min_ke_ = None \/ kinetic_energy < min_ke_[1]
    THEN [min_ke |-> Some(kinetic_energy), count |-> count, exit |-> FALSE, log |-> <<>>]
    ELSE IF kinetic_energy > previous_ke_[1]
    THEN IF count + 1 >= StopStreak
         THEN [min_ke |-> min_ke_, count |-> count + 1, exit |-> TRUE,
               log |-> <<Emit("rising", 0 - 1, NoLine), Emit("stop", 0 - 1, NoLine)>>]
         ELSE [min_ke |-> min_ke_, count |-> count + 1, exit |-> FALSE, log |-> <<>>]
    ELSE [min_ke |-> min_ke_, count |-> 0, exit |-> FALSE, log |-> <<>>]

\* _check_ke_minimum as it would be if a second sample above the first counted
\* as an increase
_check_ke_minimum_count_second(kinetic_energy, previous_ke_, min_ke_, count) ==
    IF previous_ke_ = None
    THEN [min_ke |-> min_ke_, count |-> count, exit |-> FALSE, log |-> <<>>]
    ELSE IF min_ke_ = None
    THEN [min_ke |-> Some(kinetic_energy),
          count |-> IF kinetic_energy > previous_ke_[1] THEN 1 ELSE 0,
          exit |-> FALSE, log |-> <<>>]
    ELSE IF kinetic_energy < min_ke_[1]
    THEN [min_ke |-> Some(kinetic_energy), count |-> 0, exit |-> FALSE, log |-> <<>>]
    ELSE IF kinetic_energy > previous_ke_[1]
    THEN IF count + 1 >= StopStreak
         THEN [min_ke |-> min_ke_, count |-> count + 1, exit |-> TRUE,
               log |-> <<Emit("rising", 0 - 1, NoLine), Emit("stop", 0 - 1, NoLine)>>]
         ELSE [min_ke |-> min_ke_, count |-> count + 1, exit |-> FALSE, log |-> <<>>]
    ELSE [min_ke |-> min_ke_, count |-> 0, exit |-> FALSE, log |-> <<>>]

\* _check_ke_minimum as it would be if the first minimum were the lower of the
\* first two samples
_check_ke_minimum_lower_of_two(kinetic_energy, previous_ke_, min_ke_, count) ==
    IF previous_ke_ = None
    THEN [min_ke |-> min_ke_, count |-> count, exit |-> FALSE, log |-> <<>>]
    ELSE IF min_ke_ = None
    THEN [min_ke |-> IF kinetic_energy < previous_ke_[1]
                     THEN Some(kinetic_energy) ELSE previous_ke_,
          count |-> 0, exit |-> FALSE, log |-> <<>>]
    ELSE IF kinetic_energy < min_ke_[1]
    THEN [min_ke |-> Some(kinetic_energy), count |-> 0, exit |-> FALSE, log |-> <<>>]
    ELSE IF kinetic_energy > previous_ke_[1]
    THEN IF count + 1 >= StopStreak
         THEN [min_ke |-> min_ke_, count |-> count + 1, exit |-> TRUE,
               log |-> <<Emit("rising", 0 - 1, NoLine), Emit("stop", 0 - 1, NoLine)>>]
         ELSE [min_ke |-> min_ke_, count |-> count + 1, exit |-> FALSE, log |-> <<>>]
    ELSE [min_ke |-> min_ke_, count |-> 0, exit |-> FALSE, log |-> <<>>]

_check_ke_minimum(kinetic_energy, previous_ke_, min_ke_, count) ==
    IF previous_ke_ = None
    THEN [min_ke |-> min_ke_, count |-> count, exit |-> FALSE, log |-> <<>>]
    ELSE IF min_ke_ = None \/ kinetic_energy < min_ke_[1]
    THEN [min_ke |-> Some(kinetic_energy), count |-> 0, exit |-> FALSE, log |-> <<>>]
    ELSE IF kinetic_energy > previous_ke_[1]
    THEN IF count + 1 >= StopStreak
         THEN [min_ke |-> min_ke_, count |-> count + 1, exit |-> TRUE,
               log |-> <<Emit("rising", 0 - 1, NoLine), Emit("stop", 0 - 1, NoLine)>>]
         ELSE [min_ke |-> min_ke_, count |-> count + 1, exit |-> FALSE, log |-> <<>>]
    ELSE [min_ke |-> min_ke_, count |-> 0, exit |-> FALSE, log |-> <<>>]

\* _check_completion_status as it would be if every completion line counted
\* as a success
_check_completion_status_all_success(line) ==
    IF \/ Contains(line, SUCCESS_MARK)
       \/ Contains(line, ABORT_MARK)
       \/ Contains(line, TERM_MARK)
    THEN <<TRUE, TRUE, <<Emit("done", 0 - 1, NoLine)>> >>
    ELSE <<FALSE, FALSE, <<>> >>

\* <<has_status, success, log>>
_check_completion_status(line) ==
    IF Contains(line, SUCCESS_MARK)
    THEN <<TRUE, TRUE, <<Emit("done", 0 - 1, NoLine)>> >>
    ELSE IF Contains(line, ABORT_MARK) \/ Contains(line, TERM_MARK)
    THEN <<TRUE, FALSE, <<Emit("fail", 0 - 1, NoLine)>> >>
    ELSE <<FALSE, FALSE, <<>> >>

\* ---------------------------------------------------------------- state
VARIABLES
    exists,                  \* the status file has been created
    file,                    \* its lines, as the solver has written them so far
    last_printed_line_index,
    header_printed,
    previous_ke,
    min_ke,
    ke_increasing_count,
    result,                  \* "running", or what monitor_job returned: "true", "false"
    out,                     \* everything logged by the monitor, in order
    processed,               \* history: <<index, line>> of every line the loop body saw
    samples,                 \* history: kinetic energies passed to _check_ke_minimum
    polled,                  \* history: <<lines>> read by the latest poll, <<>> if none
    reread,                  \* history: the latest poll read what the poll before it read
    absent_polls,            \* history: polls that raised FileNotFoundError
    script,                  \* SpecKE: the samples to feed, <<>> for any
    pc,                      \* where create_and_submit_job stands
    calls,                   \* history: the calls made on the job, in order
    wait,                    \* the wait argument of create_and_submit_job
    alive,                   \* the solver process is running
    rc,                      \* what subprocess.call returned last, 0 before
    study,                   \* the study configuration: its name and parameter lists
    cases,                   \* the case files written by split_study_into_cases
    job_names,               \* the job names it returned
    configs,                 \* what generate_configs returned, <<>> before
    inputs,                  \* the model inputs read back from the case files
    _logger,                 \* the global logger: None, or the index of its file
    log_files,               \* every Logger made so far, with what was written to it
    noops                    \* history: logger calls made while _logger was None

vars == <<exists, file, last_printed_line_index, header_printed, previous_ke, min_ke,
          ke_increasing_count, result, out, processed, samples, polled, reread,
          absent_polls, script, pc, calls, wait, alive, rc, study, cases, job_names,
          configs, inputs, _logger, log_files, noops>>

\* the state of create_and_submit_job and of the job it submitted
job == <<pc, calls, wait, alive, rc>>

\* the state of the study generator
gen == <<study, cases, job_names, configs, inputs>>

\* the state of the logger module
logs == <<_logger, log_files, noops>>

monitor == <<last_printed_line_index, header_printed, previous_ke, min_ke,
             ke_increasing_count>>

Max(a, b) == IF a >= b THEN a ELSE b

\* ---------------------------------------------------------------- monitor_job
\* the local variables of monitor_job, with the histories
Locals ==
    [last |-> last_printed_line_index, header_printed |-> header_printed,
     previous_ke |-> previous_ke, min_ke |-> min_ke, count |-> ke_increasing_count,
     result |-> result, out |-> out, processed |-> processed, samples |-> samples]

\* lines 164-175: the sample is checked, and kept as the previous one unless
\* the check says to stop
Track(st, ke) ==
    LET chk == _check_ke_minimum(ke, st.previous_ke, st.min_ke, st.count)
        fed == [st EXCEPT !.min_ke = chk.min_ke, !.count = chk.count,
                          !.out = @ \o chk.log, !.samples = Append(@, ke)]
    IN  IF chk.exit
        THEN [fed EXCEPT !.result = "true"]
        ELSE [fed EXCEPT !.previous_ke = Some(ke)]

\* an increment-shaped line as it would be handled if the header flag were never set
IncrementLineNoFlag(st, i, entry) ==
    LET line == Text(entry)
        values == line
    IN  IF Len(values) >= 7
        THEN IF ParseOk(values)
             THEN LET data == _parse_increment_data(values)
                      hdr == IF st.header_printed THEN <<>>
                             ELSE <<Emit("header", i, NoLine)>>
                      shown == [st EXCEPT !.out = @ \o hdr \o <<Emit("record", i, entry)>>]
                      tracked == Track(shown, data.kinetic_energy)
                  IN  IF tracked.result = "true"
                      THEN tracked
                      ELSE [tracked EXCEPT !.last = i]
             ELSE IF line # <<>>
                  THEN [st EXCEPT !.out = Append(@, Emit("raw", i, entry)), !.last = i]
                  ELSE [st EXCEPT !.last = i]
        ELSE [st EXCEPT !.last = i]

\* an increment-shaped line as it would be handled if the sample were checked
\* before the record is logged
IncrementLineTrackFirst(st, i, entry) ==
    LET line == Text(entry)
        values == line
    IN  IF Len(values) >= 7
        THEN IF ParseOk(values)
             THEN LET data == _parse_increment_data(values)
                      hdr == IF st.header_printed THEN <<>>
                             ELSE <<Emit("header", i, NoLine)>>
                      tracked == Track([st EXCEPT !.header_printed = TRUE],
                                       data.kinetic_energy)
                      shown == [tracked EXCEPT
                                   !.out = @ \o hdr \o <<Emit("record", i, entry)>>]
                  IN  IF shown.result = "true"
                      THEN shown
                      ELSE [shown EXCEPT !.last = i]
             ELSE IF line # <<>>
                  THEN [st EXCEPT !.out = Append(@, Emit("raw", i, entry)), !.last = i]
                  ELSE [st EXCEPT !.last = i]
        ELSE [st EXCEPT !.last = i]

\* an increment-shaped line as it would be handled if seven tokens made a record
IncrementLineSeven(st, i, entry) ==
    LET line == Text(entry)
        values == line
    IN  IF Len(values) >= 7
        THEN IF /\ IntOk(values[1])
                /\ FloatOk(values[2])
                /\ FloatOk(values[3])
                /\ FloatOk(values[5])
                /\ FloatOk(values[7])
                /\ Len(values) >= 8 => FloatOk(values[8])
             THEN LET hdr == IF st.header_printed THEN <<>>
                             ELSE <<Emit("header", i, NoLine)>>
                      shown == [st EXCEPT !.header_printed = TRUE,
                                          !.out = @ \o hdr \o <<Emit("record", i, entry)>>]
                      tracked == Track(shown, values[7].v)
                  IN  IF tracked.result = "true"
                      THEN tracked
                      ELSE [tracked EXCEPT !.last = i]
             ELSE IF line # <<>>
                  THEN [st EXCEPT !.out = Append(@, Emit("raw", i, entry)), !.last = i]
                  ELSE [st EXCEPT !.last = i]
        ELSE [st EXCEPT !.last = i]

\* lines 150-183 for an increment-shaped line
IncrementLine(st, i, entry) ==
    LET line == Text(entry)
        values == line
    IN  IF Len(values) >= 7
        THEN IF ParseOk(values)
             THEN LET data == _parse_increment_data(values)
                      hdr == IF st.header_printed THEN <<>>
                             ELSE <<Emit("header", i, NoLine)>>
                      shown == [st EXCEPT !.header_printed = TRUE,
                                          !.out = @ \o hdr \o <<Emit("record", i, entry)>>]
                      tracked == Track(shown, data.kinetic_energy)
                  IN  IF tracked.result = "true"
                      THEN tracked
                      ELSE [tracked EXCEPT !.last = i]
             ELSE IF line # <<>>
                  THEN [st EXCEPT !.out = Append(@, Emit("raw", i, entry)), !.last = i]
                  ELSE [st EXCEPT !.last = i]
        ELSE [st EXCEPT !.last = i]

\* the body of the for loop as it would be if header lines were set aside before
\* the completion check
LoopBodyHeaderFirst(st, i, entry) ==
    LET line == Text(entry)
        status == _check_completion_status(line)
        seen == [st EXCEPT !.processed = Append(@, <<i, entry>>)]
    IN  IF _is_header_line(line)
        THEN [seen EXCEPT !.last = i]
        ELSE IF status[1]
        THEN [seen EXCEPT !.out = @ \o status[3],
                          !.result = IF status[2] THEN "true" ELSE "false"]
        ELSE IF _is_increment_data_line(line)
        THEN IncrementLine(seen, i, entry)
        ELSE IF line # <<>> /\ ~_should_skip_line(line)
        THEN [seen EXCEPT !.out = Append(@, Emit("raw", i, entry)), !.last = i]
        ELSE [seen EXCEPT !.last = i]

\* lines 138-183: the body of the for loop for line i (0-based)
LoopBody(st, i, entry) ==
    LET line == Text(entry)
        status == _check_completion_status(line)
        seen == [st EXCEPT !.processed = Append(@, <<i, entry>>)]
    IN  IF status[1]
        THEN [seen EXCEPT !.out = @ \o status[3],
                          !.result = IF status[2] THEN "true" ELSE "false"]
        ELSE IF _is_header_line(line)
        THEN [seen EXCEPT !.last = i]
        ELSE IF _is_increment_data_line(line)
        THEN IncrementLine(seen, i, entry)
        ELSE IF line # <<>> /\ ~_should_skip_line(line)
        THEN [seen EXCEPT !.out = Append(@, Emit("raw", i, entry)), !.last = i]
        ELSE [seen EXCEPT !.last = i]

\* lines 135-183: for i in range(from, len(lines)), left by a return
RECURSIVE ForLoop(_, _, _)
ForLoop(st, lines, i) ==
    IF i >= Len(lines) \/ st.result # "running"
    THEN st
    ELSE ForLoop(LoopBody(st, i, lines[i + 1]), lines, i + 1)

\* the first index as it would be if the loop began at the last consumed line
LoopStartAtLast(start_index, last) == Max(start_index, last)

\* the first index as it would be if the loop began at the table on every poll
LoopStartAtTable(start_index, last) == start_index

\* the first index of the for loop
LoopStart(start_index, last) == Max(start_index, last + 1)

\* one pass as it would be if only the anchor line itself were set aside
ScanFromHeaderRows(st, lines) ==
    LET solution_progress_index == _find_solution_progress_section(lines)
    IN  IF solution_progress_index >= 0
        THEN ForLoop(st, lines, LoopStart(solution_progress_index + 1, st.last))
        ELSE st

\* lines 130-183: one pass over the lines just read
Scan(st, lines) ==
    LET solution_progress_index == _find_solution_progress_section(lines)
    IN  IF solution_progress_index >= 0
        THEN ForLoop(st, lines, LoopStart(solution_progress_index + 2, st.last))
        ELSE st

\* lines 126-183 and 192: a poll that opens and reads the file
Poll ==
    /\ pc = "monitoring"
    /\ result = "running"
    /\ exists
    /\ LET st == Scan(Locals, file)
       IN  /\ last_printed_line_index' = st.last
           /\ header_printed' = st.header_printed
           /\ previous_ke' = st.previous_ke
           /\ min_ke' = st.min_ke
           /\ ke_increasing_count' = st.count
           /\ result' = st.result
           /\ out' = st.out
           /\ processed' = st.processed
           /\ samples' = st.samples
    /\ polled' = <<file>>
    /\ reread' = (polled = <<file>>)
    /\ UNCHANGED <<exists, file, absent_polls, script, job, gen, logs>>

\* the waiting notices in a log
RECURSIVE Notices(_)
Notices(log) ==
    IF log = <<>> THEN 0
    ELSE (IF log[1].e = "notice" THEN 1 ELSE 0) + Notices(Tail(log))

\* PollAbsent, but the missing file ends the session
PollAbsentGivesUp ==
    /\ pc = "monitoring"
    /\ result = "running"
    /\ ~exists
    /\ absent_polls < MaxAbsent
    /\ out' = Append(out, Emit("notice", 0 - 1, NoLine))
    /\ absent_polls' = absent_polls + 1
    /\ polled' = <<>>
    /\ reread' = FALSE
    /\ result' = "false"
    /\ UNCHANGED <<exists, file, monitor, processed, samples, script, job, gen, logs>>

\* PollAbsent, but with a limit on the polls that find no file
PollAbsentTimesOut ==
    /\ pc = "monitoring"
    /\ result = "running"
    /\ ~exists
    /\ absent_polls < MaxAbsent
    /\ out' = Append(out, Emit("notice", 0 - 1, NoLine))
    /\ absent_polls' = absent_polls + 1
    /\ polled' = <<>>
    /\ reread' = FALSE
    /\ result' = (IF absent_polls + 1 = MaxAbsent THEN "false" ELSE "running")
    /\ UNCHANGED <<exists, file, monitor, processed, samples, script, job, gen, logs>>

\* lines 185-190: a poll that finds no file
PollAbsent ==
    /\ pc = "monitoring"
    /\ result = "running"
    /\ ~exists
    /\ absent_polls < MaxAbsent
    /\ out' = Append(out, Emit("notice", 0 - 1, NoLine))
    /\ absent_polls' = absent_polls + 1
    /\ polled' = <<>>
    /\ reread' = FALSE
    /\ UNCHANGED <<exists, file, monitor, result, processed, samples, script, job, gen, logs>>

\* ---------------------------------------------------------------- the solver
\* The solver is followed for as long as the monitoring session lasts.
\* the solver creates the status file
Create ==
    /\ result = "running"
    /\ ~exists
    /\ exists' = TRUE
    /\ UNCHANGED <<file, monitor, result, out, processed, samples, polled, reread,
                   absent_polls, script, job, gen, logs>>

HasAnchor(lines) == _find_solution_progress_section(lines) >= 0

\* the lines of the other kinds that follow the head of the table
OddLines(lines) ==
    Cardinality({i \in 1..Len(lines) :
                    /\ lines[i].k \in OddKinds
                    /\ ~(i <= 3 /\ lines[i].k \in {"hdrCols", "hdrInc"})})

\* the kinetic energy of the latest increment row of the file, 0 if none
RECURSIVE LastKE(_)
LastKE(lines) ==
    IF lines = <<>> THEN 0
    ELSE IF lines[Len(lines)].k = "data" THEN lines[Len(lines)].ke
    ELSE LastKE(SubSeq(lines, 1, Len(lines) - 1))

KEVals == 1..MaxKE

\* the kinetic energy of the next increment row: back at the floor, or one
\* above that of the row before
NextKE(lines) == {1, LastKE(lines) + 1} \cap KEVals

\* the lines that may precede the progress table
HeadKinds == {"succ", "abort", "text"}

\* the increment rows that a poll has read while they were incomplete
PartSeen(seen) ==
    Cardinality({j \in 1..Len(seen) :
                    ~Complete(seen[j][2]) /\ seen[j][2].k \notin OddKinds})

\* what the solver may write next: the anchor once, an increment row, or
\* one of the other lines
NextLines(lines, kinds) ==
    (IF HasAnchor(lines) THEN {} ELSE {<<"anchor", 0>>})
    \cup {<<"data", ke>> : ke \in NextKE(lines)}
    \cup (IF OddLines(lines) + PartSeen(processed) < MaxOdd
          THEN {<<k, IF k \in {"short7", "short5"} THEN 1 ELSE 0>> : k \in kinds}
          ELSE {})


LastComplete(lines) == IF Len(lines) = 0 THEN TRUE ELSE Complete(lines[Len(lines)])

\* the head of a progress table: the anchor and the two header rows
TableHead == <<Whole("anchor", 0), Whole("hdrCols", 0), Whole("hdrInc", 0)>>

\* the solver appends a whole line to a file of fewer than cap lines
AppendLine(cap, kinds) ==
    /\ result = "running"
    /\ exists
    /\ Len(file) < cap
    /\ LastComplete(file)
    /\ \E l \in NextLines(file, kinds) : file' = Append(file, Whole(l[1], l[2]))
    /\ UNCHANGED <<exists, monitor, result, out, processed, samples, polled, reread,
                   absent_polls, script, job, gen, logs>>

WriteLine == AppendLine(MaxLines, HeadKinds)

RaceLine == AppendLine(Len(TableHead) + MaxRace, OddKinds)

\* the lines, besides the increment rows, that are followed while half written
PartKinds == {"succ", "both", "hdrStep", "badnum"}

\* the solver has written only the first n tokens of its next line
WritePart ==
    /\ result = "running"
    /\ exists
    /\ Len(file) < Len(TableHead) + MaxRace
    /\ LastComplete(file)
    /\ OddLines(file) + PartSeen(processed) < MaxOdd
    /\ \E l \in NextLines(file, PartKinds) :
          \E n \in 1..(Len(FullText(l[1], l[2])) - 1) :
             file' = Append(file, Entry(l[1], l[2], n))
    /\ UNCHANGED <<exists, monitor, result, out, processed, samples, polled, reread,
                   absent_polls, script, job, gen, logs>>

\* the solver writes the rest of that line
WriteRest ==
    /\ result = "running"
    /\ exists
    /\ ~LastComplete(file)
    /\ file' = [file EXCEPT ![Len(file)] = Whole(@.k, @.ke)]
    /\ UNCHANGED <<exists, monitor, result, out, processed, samples, polled, reread,
                   absent_polls, script, job, gen, logs>>

\* the solver appends an increment row to the table
WriteRow ==
    /\ result = "running"
    /\ exists
    /\ Len(file) < Len(TableHead) + MaxRows
    /\ file = <<>> \/ file[Len(file)].k \in {"hdrInc", "data"}
    /\ \E ke \in NextKE(file) : file' = Append(file, Whole("data", ke))
    /\ UNCHANGED <<exists, monitor, result, out, processed, samples, polled, reread,
                   absent_polls, script, job, gen, logs>>

\* the solver ends the table with a completion line
WriteMark ==
    /\ result = "running"
    /\ exists
    /\ file = <<>> \/ file[Len(file)].k \in {"hdrInc", "data"}
    /\ \E k \in {"succ", "abort", "term"} : file' = Append(file, Whole(k, 0))
    /\ UNCHANGED <<exists, monitor, result, out, processed, samples, polled, reread,
                   absent_polls, script, job, gen, logs>>

\* ---------------------------------------------------------------- create_and_submit_job
\* job.py line 56: the job is submitted, the solver process starts
Submit ==
    /\ pc = "start"
    /\ calls' = Append(calls, "submit")
    /\ alive' = TRUE
    /\ pc' = "submitted"
    /\ UNCHANGED <<exists, file, monitor, result, out, processed, samples, polled,
                   reread, absent_polls, script, wait, rc, gen, logs>>

\* StartMonitor, but whatever the wait argument
StartMonitorAlways ==
    /\ pc = "submitted"
    /\ pc' = "monitoring"
    /\ UNCHANGED <<exists, file, monitor, result, out, processed, samples, polled,
                   reread, absent_polls, script, calls, wait, alive, rc, gen, logs>>

\* job.py lines 58-62: with wait set, monitor_job is called on the status file
StartMonitor ==
    /\ pc = "submitted"
    /\ wait
    /\ pc' = "monitoring"
    /\ UNCHANGED <<exists, file, monitor, result, out, processed, samples, polled,
                   reread, absent_polls, script, calls, wait, alive, rc, gen, logs>>

\* job.py line 58: without wait, the function returns right after the submission
NoWait ==
    /\ pc = "submitted"
    /\ ~wait
    /\ pc' = "returned"
    /\ UNCHANGED <<exists, file, monitor, result, out, processed, samples, polled,
                   reread, absent_polls, script, calls, wait, alive, rc, gen, logs>>

\* job.py line 62: monitor_job returned False, nothing else is done
MonitorFalse ==
    /\ pc = "monitoring"
    /\ result = "false"
    /\ pc' = "returned"
    /\ UNCHANGED <<exists, file, monitor, result, out, processed, samples, polled,
                   reread, absent_polls, script, calls, wait, alive, rc, gen, logs>>

\* Kill, but on any outcome of monitor_job
KillAlways ==
    /\ pc = "monitoring"
    /\ result # "running"
    /\ calls' = Append(calls, "kill")
    /\ \E stopped \in BOOLEAN : alive' = (alive /\ ~stopped)
    /\ pc' = "killed"
    /\ UNCHANGED <<exists, file, monitor, result, out, processed, samples, polled,
                   reread, absent_polls, script, wait, rc, gen, logs>>

\* job.py lines 62-64: monitor_job returned True, job.kill() is called; the kill
\* may leave the solver process running
Kill ==
    /\ pc = "monitoring"
    /\ result = "true"
    /\ calls' = Append(calls, "kill")
    /\ \E stopped \in BOOLEAN : alive' = (alive /\ ~stopped)
    /\ pc' = "killed"
    /\ UNCHANGED <<exists, file, monitor, result, out, processed, samples, polled,
                   reread, absent_polls, script, wait, rc, gen, logs>>

\* Terminate, but as subprocess.check_call, which raises on a non-zero status
TerminateChecked ==
    /\ pc = "killed"
    /\ calls' = Append(calls, "terminate")
    /\ \E status \in {0, 1} :
          /\ rc' = status
          /\ alive' = (alive /\ status # 0)
          /\ pc' = (IF status = 0 THEN "returned" ELSE "raised")
    /\ UNCHANGED <<exists, file, monitor, result, out, processed, samples, polled,
                   reread, absent_polls, script, wait, gen, logs>>

\* job.py line 67: subprocess.call runs "abaqus terminate job=<name>"; its exit
\* status is returned by the call and dropped
Terminate ==
    /\ pc = "killed"
    /\ calls' = Append(calls, "terminate")
    /\ \E status \in {0, 1} :
          /\ rc' = status
          /\ alive' = (alive /\ status # 0)
    /\ pc' = "returned"
    /\ UNCHANGED <<exists, file, monitor, result, out, processed, samples, polled,
                   reread, absent_polls, script, wait, gen, logs>>

\* the solver creates the status file and writes the head of the table
WriteHead ==
    /\ result = "running"
    /\ alive
    /\ ~exists
    /\ exists' = TRUE
    /\ file' = TableHead
    /\ UNCHANGED <<monitor, result, out, processed, samples, polled, reread,
                   absent_polls, script, job, gen, logs>>

\* ---------------------------------------------------------------- the tracker alone
\* the sequences of section 8 of the specification
TraceA == <<10, 8, 6, 7, 9, 11>>
TraceB == <<10, 8, 9, 7, 9, 10, 11>>
\* a sequence that rises from its first sample on
TraceC == <<1, 2, 3, 4, 5>>

\* lines 164-175 applied to the next sample
Feed ==
    /\ result = "running"
    /\ Len(samples) < (IF script = <<>> THEN MaxSamples ELSE Len(script))
    /\ \E ke \in (IF script = <<>> THEN KEVals ELSE {script[Len(samples) + 1]}) :
          LET st == Track(Locals, ke)
          IN  /\ previous_ke' = st.previous_ke
              /\ min_ke' = st.min_ke
              /\ ke_increasing_count' = st.count
              /\ result' = st.result
              /\ out' = st.out
              /\ samples' = st.samples
    /\ UNCHANGED <<exists, file, last_printed_line_index, header_printed, processed,
                   polled, reread, absent_polls, script, job, gen, logs>>

\* ---------------------------------------------------------------- study generator
\* generator.py line 79: the divisor that turns kilograms into tons; a float
\* is held in thousandths, so that the division is exact
Thousand == 1000

\* float(n) for an integer n, in thousandths
Real(n) == n * Thousand

\* str(n)
Str(n) == [str |-> n]

\* f"{study_name}_{case_num}"
JobName(name, num) == [study |-> name, num |-> num]

\* the parameters of a study, in the order of study.json: impactor mass in
\* kilograms, plate width, material name
ParamValues == <<{2, 5}, {100, 150}, {"MatA", "MatB"}>>

\* the lists of at most MaxVals values drawn from a set
Lists(S) == UNION {[1..n -> S] : n \in 0..MaxVals}

\* itertools.product as it would be if the first list varied fastest
RECURSIVE ProductFirstFastest(_)
ProductFirstFastest(lists) ==
    IF lists = <<>>
    THEN << <<>> >>
    ELSE LET first == Head(lists)
             rest == ProductFirstFastest(Tail(lists))
         IN  [k \in 1..(Len(first) * Len(rest)) |->
                 <<first[((k - 1) % Len(first)) + 1]>>
                     \o rest[((k - 1) \div Len(first)) + 1]]

\* itertools.product(*lists): nested loops, the last list varying fastest
RECURSIVE Product(_)
Product(lists) ==
    IF lists = <<>>
    THEN << <<>> >>
    ELSE LET outer == Product(SubSeq(lists, 1, Len(lists) - 1))
             last == lists[Len(lists)]
         IN  [k \in 1..(Len(outer) * Len(last)) |->
                 Append(outer[((k - 1) \div Len(last)) + 1],
                        last[((k - 1) % Len(last)) + 1])]

\* generator.py lines 149-175
generate_parameter_combinations(parameters) ==
    LET combos == Product(parameters)
    IN  [k \in 1..Len(combos) |->
            [imp_mass_kg |-> combos[k][1], width |-> combos[k][2],
             material |-> combos[k][3]]]

\* generator.py lines 100-146: the case file and the job name
create_case_json(case_num, param_set, study_config) ==
    [case |-> [case_id |-> case_num, study_name |-> study_config.study_name,
               parameters |-> param_set, material_name |-> param_set.material],
     job_name |-> JobName(study_config.study_name, case_num)]

\* generator.py lines 39-97: the model inputs made straight from the study
generate_configs(study_config) ==
    LET combos == Product(study_config.parameters)
    IN  [i \in 1..Len(combos) |->
            [uid |-> Str(i), study |-> study_config.study_name,
             width |-> Real(combos[i][2]),
             imp_mass |-> Real(combos[i][1]) \div Thousand,
             material_name |-> combos[i][3]]]

\* generator.py lines 218-256: the model input made from a case file
from_case_to_model_input(case_data) ==
    [uid |-> Str(case_data.case_id), study |-> case_data.study_name,
     width |-> Real(case_data.parameters.width),
     imp_mass |-> Real(case_data.parameters.imp_mass_kg),
     material_name |-> case_data.material_name]

\* generator.py lines 178-215
split_study_into_cases ==
    /\ study.parameters # <<>>
    /\ cases = <<>>
    /\ LET combinations == generate_parameter_combinations(study.parameters)
           made == [i \in 1..Len(combinations) |->
                       create_case_json(i, combinations[i], study)]
       IN  /\ cases' = [i \in 1..Len(made) |-> made[i].case]
           /\ job_names' = [i \in 1..Len(made) |-> made[i].job_name]
    /\ UNCHANGED <<exists, file, monitor, result, out, processed, samples, polled,
                   reread, absent_polls, script, job, study, configs, inputs, logs>>

\* generator.py lines 39-97, called on the same study
GenerateConfigs ==
    /\ study.parameters # <<>>
    /\ configs = <<>>
    /\ configs' = generate_configs(study)
    /\ UNCHANGED <<exists, file, monitor, result, out, processed, samples, polled,
                   reread, absent_polls, script, job, study, cases, job_names,
                   inputs, logs>>

\* generator.py lines 218-256, called on the case files in their order
LoadCase ==
    /\ Len(inputs) < Len(cases)
    /\ inputs' = Append(inputs, from_case_to_model_input(cases[Len(inputs) + 1]))
    /\ UNCHANGED <<exists, file, monitor, result, out, processed, samples, polled,
                   reread, absent_polls, script, job, study, cases, job_names,
                   configs, logs>>

\* ---------------------------------------------------------------- logger
\* logger.py lines 21-37: a Logger just made, its file open, the five lines of
\* the header written
NewLogger == [open |-> TRUE, lines |-> 5, msgs |-> 0, footers |-> 0, bad |-> 0,
              deleted |-> FALSE]

\* logger.py lines 39-47: Logger.log; file.write on a closed file raises
\* ValueError and writes nothing
LoggerLog(f) ==
    IF f.open THEN [f EXCEPT !.lines = @ + 1] ELSE [f EXCEPT !.bad = @ + 1]

\* logger.py lines 49-59: Logger.section, four calls of log
LoggerSection(f) == LoggerLog(LoggerLog(LoggerLog(LoggerLog(f))))

\* Logger.close as it would be without the test of the file
LoggerCloseUnguarded(f) ==
    [LoggerLog(LoggerLog(LoggerLog(LoggerLog(f)))) EXCEPT
        !.footers = @ + 1, !.open = FALSE]

\* logger.py lines 61-68: Logger.close, the footer written if the file is open
LoggerClose(f) ==
    IF f.open
    THEN [LoggerLog(LoggerLog(LoggerLog(LoggerLog(f)))) EXCEPT
             !.footers = @ + 1, !.open = FALSE]
    ELSE f

\* logger.py lines 79-90
init_logger ==
    /\ Len(log_files) < MaxLogs
    /\ LET closed == IF _logger # None
                     THEN [log_files EXCEPT ![_logger[1]] = LoggerClose(@)]
                     ELSE log_files
       IN  log_files' = Append(closed, NewLogger)
    /\ _logger' = Some(Len(log_files) + 1)
    /\ UNCHANGED <<exists, file, monitor, result, out, processed, samples, polled,
                   reread, absent_polls, script, job, gen, noops>>

\* logger.py lines 93-101
log_func ==
    /\ IF _logger # None
       THEN /\ log_files[_logger[1]].msgs < MaxMsgs
            /\ log_files' = [log_files EXCEPT
                                ![_logger[1]] = [LoggerLog(@) EXCEPT !.msgs = @ + 1]]
            /\ UNCHANGED noops
       ELSE /\ noops < MaxMsgs
            /\ noops' = noops + 1
            /\ UNCHANGED log_files
    /\ UNCHANGED <<exists, file, monitor, result, out, processed, samples, polled,
                   reread, absent_polls, script, job, gen, _logger>>

\* logger.py lines 104-112
log_section ==
    /\ IF _logger # None
       THEN /\ log_files[_logger[1]].msgs < MaxMsgs
            /\ log_files' = [log_files EXCEPT
                                ![_logger[1]] = [LoggerSection(@) EXCEPT !.msgs = @ + 1]]
            /\ UNCHANGED noops
       ELSE /\ noops < MaxMsgs
            /\ noops' = noops + 1
            /\ UNCHANGED log_files
    /\ UNCHANGED <<exists, file, monitor, result, out, processed, samples, polled,
                   reread, absent_polls, script, job, gen, _logger>>

\* logger.py lines 115-120
close_logger ==
    /\ IF _logger # None
       THEN /\ log_files' = [log_files EXCEPT ![_logger[1]] = LoggerClose(@)]
            /\ _logger' = None
            /\ UNCHANGED noops
       ELSE /\ noops < MaxMsgs
            /\ noops' = noops + 1
            /\ UNCHANGED <<_logger, log_files>>
    /\ UNCHANGED <<exists, file, monitor, result, out, processed, samples, polled,
                   reread, absent_polls, script, job, gen>>

\* logger.py lines 70-72: a Logger that _logger no longer refers to is deleted,
\* and __del__ calls close once more
LoggerDel ==
    /\ \E i \in 1..Len(log_files) :
          /\ _logger # Some(i)
          /\ ~log_files[i].deleted
          /\ log_files' = [log_files EXCEPT
                              ![i] = [LoggerClose(@) EXCEPT !.deleted = TRUE]]
    /\ UNCHANGED <<exists, file, monitor, result, out, processed, samples, polled,
                   reread, absent_polls, script, job, gen, _logger, noops>>

\* ---------------------------------------------------------------- idle parts
\* no study has been loaded
NoStudy ==
    /\ study = [study_name |-> "none", parameters |-> <<>>]
    /\ cases = <<>>
    /\ job_names = <<>>
    /\ configs = <<>>
    /\ inputs = <<>>

\* the logger module as imported: _logger = None
NoLog ==
    /\ _logger = None
    /\ log_files = <<>>
    /\ noops = 0

\* monitor_job and create_and_submit_job have not been called
NoMonitor ==
    /\ exists = FALSE
    /\ file = <<>>
    /\ last_printed_line_index = 0 - 1
    /\ header_printed = FALSE
    /\ previous_ke = None
    /\ min_ke = None
    /\ ke_increasing_count = 0
    /\ result = "running"
    /\ out = <<>>
    /\ processed = <<>>
    /\ samples = <<>>
    /\ polled = <<>>
    /\ reread = FALSE
    /\ absent_polls = 0
    /\ script = <<>>
    /\ pc = "start"
    /\ calls = <<>>
    /\ wait = FALSE
    /\ alive = FALSE
    /\ rc = 0

\* ---------------------------------------------------------------- specification
Init ==
    /\ exists = FALSE
    /\ file = <<>>
    /\ last_printed_line_index = 0 - 1
    /\ header_printed = FALSE
    /\ previous_ke = None
    /\ min_ke = None
    /\ ke_increasing_count = 0
    /\ result = "running"
    /\ out = <<>>
    /\ processed = <<>>
    /\ samples = <<>>
    /\ polled = <<>>
    /\ reread = FALSE
    /\ absent_polls = 0
    /\ script = <<>>
    /\ pc = "monitoring"
    /\ calls = <<"submit">>
    /\ wait = TRUE
    /\ alive = TRUE
    /\ rc = 0
    /\ NoStudy
    /\ NoLog

Next == Poll \/ PollAbsent \/ Create \/ WriteLine

Spec == Init /\ [][Next]_vars

\* the monitor attaches to a status file that already holds the table head
InitTable ==
    /\ exists = TRUE
    /\ file = TableHead
    /\ last_printed_line_index = 0 - 1
    /\ header_printed = FALSE
    /\ previous_ke = None
    /\ min_ke = None
    /\ ke_increasing_count = 0
    /\ result = "running"
    /\ out = <<>>
    /\ processed = <<>>
    /\ samples = <<>>
    /\ polled = <<>>
    /\ reread = FALSE
    /\ absent_polls = 0
    /\ script = <<>>
    /\ pc = "monitoring"
    /\ calls = <<"submit">>
    /\ wait = TRUE
    /\ alive = TRUE
    /\ rc = 0
    /\ NoStudy
    /\ NoLog

NextTable == Poll \/ WriteRow \/ WriteMark

SpecTable == InitTable /\ [][NextTable]_vars

NextRace == Poll \/ RaceLine \/ WritePart \/ WriteRest

SpecRace == InitTable /\ [][NextRace]_vars

\* the tracker is fed samples directly
InitKE ==
    /\ exists = FALSE
    /\ file = <<>>
    /\ last_printed_line_index = 0 - 1
    /\ header_printed = FALSE
    /\ previous_ke = None
    /\ min_ke = None
    /\ ke_increasing_count = 0
    /\ result = "running"
    /\ out = <<>>
    /\ processed = <<>>
    /\ samples = <<>>
    /\ polled = <<>>
    /\ reread = FALSE
    /\ absent_polls = 0
    /\ script \in {<<>>, TraceA, TraceB, TraceC}
    /\ pc = "monitoring"
    /\ calls = <<"submit">>
    /\ wait = TRUE
    /\ alive = TRUE
    /\ rc = 0
    /\ NoStudy
    /\ NoLog

NextFeed == Feed

SpecKE == InitKE /\ [][NextFeed]_vars

\* create_and_submit_job from its call on
InitJob ==
    /\ exists = FALSE
    /\ file = <<>>
    /\ last_printed_line_index = 0 - 1
    /\ header_printed = FALSE
    /\ previous_ke = None
    /\ min_ke = None
    /\ ke_increasing_count = 0
    /\ result = "running"
    /\ out = <<>>
    /\ processed = <<>>
    /\ samples = <<>>
    /\ polled = <<>>
    /\ reread = FALSE
    /\ absent_polls = 0
    /\ script = <<>>
    /\ pc = "start"
    /\ calls = <<>>
    /\ wait \in BOOLEAN
    /\ alive = FALSE
    /\ rc = 0
    /\ NoStudy
    /\ NoLog

NextJob ==
    \/ Submit \/ StartMonitor \/ NoWait \/ MonitorFalse \/ Kill \/ Terminate
    \/ Poll \/ PollAbsent \/ WriteHead \/ WriteRow \/ WriteMark

SpecJob == InitJob /\ [][NextJob]_vars

\* a study is loaded, its parameters listing up to MaxVals values each
InitStudy ==
    /\ NoMonitor
    /\ NoLog
    /\ \E m \in Lists(ParamValues[1]), w \in Lists(ParamValues[2]),
          a \in Lists(ParamValues[3]) :
          study = [study_name |-> "study", parameters |-> <<m, w, a>>]
    /\ cases = <<>>
    /\ job_names = <<>>
    /\ configs = <<>>
    /\ inputs = <<>>

NextStudy == split_study_into_cases \/ GenerateConfigs \/ LoadCase

SpecStudy == InitStudy /\ [][NextStudy]_vars

\* the logger module from its import on
InitLogger ==
    /\ NoMonitor
    /\ NoStudy
    /\ NoLog

NextLogger == init_logger \/ log_func \/ log_section \/ close_logger \/ LoggerDel

SpecLogger == InitLogger /\ [][NextLogger]_vars

\* ================================================================ claims
\* the line the loop body saw last
LastSeen == processed[Len(processed)][2]

\* the log ends with the notice of _check_ke_minimum that the analysis is stopped
HeuristicFired ==
    /\ out # <<>>
    /\ out[Len(out)].e = "stop"
    /\ ke_increasing_count >= StopStreak

\* C1: monitor_job returns true only after a line with the success marker or
\* after the kinetic-energy heuristic fired, and false only after a line with
\* an abort or terminated marker; nothing else makes it return.
C1_ReturnPaths ==
    /\ result \in {"running", "true", "false"}
    /\ result = "true" =>
          \/ processed # <<>> /\ Contains(Text(LastSeen), SUCCESS_MARK)
          \/ HeuristicFired
    /\ result = "false" =>
          /\ processed # <<>>
          /\ \/ Contains(Text(LastSeen), ABORT_MARK)
             \/ Contains(Text(LastSeen), TERM_MARK)

C1_Witness == result = "true" /\ HeuristicFired /\ ~Contains(Text(LastSeen), SUCCESS_MARK)

\* a success marker in lines, before the anchor or with no anchor at all
MarkBeforeTable(lines) ==
    \E i \in 1..Len(lines) :
        /\ Contains(Text(lines[i]), SUCCESS_MARK)
        /\ \/ ~HasAnchor(lines)
           \/ i - 1 < _find_solution_progress_section(lines)

\* C2: completion detection is not gated on the progress anchor: a poll that
\* reads a success marker before the anchor, or in a file without anchor,
\* returns true.
C2_CompletionNotGated ==
    (polled # <<>> /\ MarkBeforeTable(polled[1])) => result = "true"

\* C3: a line that a poll read while the solver had written only a prefix of
\* it is processed again, complete, by a later poll that reads it complete.
C3_PartialReread ==
    \A j \in 1..Len(processed) :
        LET i == processed[j][1]
        IN  ( /\ ~Complete(processed[j][2])
              /\ polled # <<>>
              /\ Len(polled[1]) > i
              /\ Complete(polled[1][i + 1]) )
            => \E r \in 1..Len(processed) :
                   processed[r][1] = i /\ Complete(processed[r][2])

\* C4: a poll that reads the content the poll before it read, the session
\* still running, emits nothing, processes no line and leaves the monitor's
\* state as it was.
C4_Idempotent ==
    [][(result = "running" /\ polled = <<file>> /\ file' = file /\ exists' = exists)
         => /\ monitor' = monitor
            /\ out' = out
            /\ processed' = processed
            /\ samples' = samples
            /\ result' = result]_vars

C4_Witness ==
    reread /\ result = "running" /\ processed # <<>> /\ out # <<>> /\ previous_ke # None

\* C5: last_consumed_line_index starts at -1 and never decreases, and no line
\* index is seen by the loop body twice.
C5_ConsumedOnce ==
    /\ last_printed_line_index = 0 - 1
    /\ [][last_printed_line_index' >= last_printed_line_index]_vars
    /\ [](\A a, b \in 1..Len(processed) :
             a # b => processed[a][1] # processed[b][1])

C5_Witness ==
    /\ reread
    /\ Len(processed) >= 3
    /\ last_printed_line_index = Len(file) - 1
    /\ \E j \in 1..Len(processed) : ~Complete(processed[j][2])

\* the least element of a non-empty sequence of numbers
RECURSIVE SeqMin(_)
SeqMin(q) ==
    IF Len(q) = 1 THEN q[1]
    ELSE LET m == SeqMin(Tail(q)) IN IF q[1] < m THEN q[1] ELSE m

\* C6: while the session runs, min_ke after sample k >= 2 is the minimum of
\* samples 2..k, and it is absent after sample 1 alone.
C6_MonotonicMinimum ==
    result = "running" =>
        /\ Len(samples) <= 1 => min_ke = None
        /\ Len(samples) >= 2 =>
              min_ke = Some(SeqMin(SubSeq(samples, 2, Len(samples))))

C6_Witness ==
    /\ result = "running"
    /\ Len(samples) >= 4
    /\ samples[1] < samples[3]
    /\ samples[3] < samples[2]
    /\ samples[4] > samples[3]
    /\ min_ke = Some(samples[3])

\* C7 as claimed: min_ke, when present, is at most every kinetic energy
\* observed so far in the session.
C7_MinBelowAll ==
    min_ke # None => \A i \in 1..Len(samples) : min_ke[1] <= samples[i]

\* C7 as amended: min_ke, when present, is at most every kinetic energy
\* observed from the second sample of the session on.
C7_MinBelowTracked ==
    min_ke # None => \A i \in 2..Len(samples) : min_ke[1] <= samples[i]

C7_Witness ==
    /\ min_ke # None
    /\ Len(samples) >= 3
    /\ samples[1] < min_ke[1]
    /\ samples[3] < samples[2]

\* sample n is a strict increase over sample n - 1
Rise(n) == n >= 2 /\ n <= Len(samples) /\ samples[n] > samples[n - 1]

\* C8: stop is signalled exactly on the sample that brings the streak to 3,
\* never earlier; on 10, 8, 6, 7, 9, 11 the minimum is 6 after the third
\* sample, the streak is 1, 2, 3 at samples four to six and stop is
\* signalled on the sixth.
C8_TriggerLaw ==
    LET n == Len(samples)
    IN  /\ ke_increasing_count <= StopStreak
        /\ result = "true" <=> ke_increasing_count = StopStreak
        /\ result = "true" => Rise(n) /\ Rise(n - 1) /\ Rise(n - 2)
        /\ script = TraceA =>
              /\ n < 6 => result = "running"
              /\ n = 6 => result = "true"
              /\ n >= 3 => min_ke = Some(6)
              /\ n >= 3 => ke_increasing_count = n - 3

C8_Witness == script = TraceA /\ Len(samples) = 6 /\ result = "true"

\* C9: a sample, other than the first, that is at most the sample before it
\* leaves the streak at 0, new minimum or not; stop is signalled only when
\* each of the three latest samples is a strict increase over its predecessor
\* (on 10, 8, 9, 7, 9, 10, 11: on the seventh sample).
C9_StreakReset ==
    LET n == Len(samples)
    IN  /\ (n >= 2 /\ samples[n] <= samples[n - 1]) => ke_increasing_count = 0
        /\ result = "true" => Rise(n) /\ Rise(n - 1) /\ Rise(n - 2)
        /\ script = TraceB =>
              /\ n < 7 => result = "running"
              /\ n = 7 => result = "true"
              /\ n \in {2, 4} => ke_increasing_count = 0
              /\ n = 3 => ke_increasing_count = 1

C9_Witness ==
    /\ script = <<>>
    /\ Len(samples) = 4
    /\ samples[3] > samples[2]
    /\ samples[4] <= samples[3]
    /\ min_ke # None
    /\ min_ke[1] < samples[4]
    /\ ke_increasing_count = 0

\* C10: if the status file is absent for N polls and then appears with a
\* success marker, the monitor logs at most N waiting notices and returns true.
C10_MissingFile ==
    (polled # <<>> /\ \E i \in 1..Len(polled[1]) :
                          Contains(Text(polled[1][i]), SUCCESS_MARK))
        => (result = "true" /\ Notices(out) <= absent_polls)

\* C11: a poll that finds the status file absent is not an error: it logs one
\* waiting notice, leaves the whole monitor state unchanged, produces no terminal
\* outcome, and leaves the monitor in its polling loop; the monitor keeps no
\* count of the retries (the only limit on them is the bound MaxAbsent of the
\* exploration).
C11_AbsentPoll ==
    [][absent_polls' # absent_polls =>
           /\ ~exists
           /\ absent_polls' = absent_polls + 1
           /\ out' = Append(out, Emit("notice", 0 - 1, NoLine))
           /\ Notices(out') = absent_polls'
           /\ UNCHANGED monitor
           /\ UNCHANGED <<processed, samples, exists, file>>
           /\ result = "running"
           /\ result' = "running"
           /\ pc' = "monitoring"]_vars

C11_Witness ==
    /\ absent_polls = MaxAbsent
    /\ Notices(out) = MaxAbsent
    /\ result = "true"

\* C12: the job is submitted before it is monitored; when monitor_job returns
\* True the handle's kill() and then the terminate command are called, in that
\* order and each exactly once; when it returns False neither is called.
C12_Lifecycle ==
    /\ pc \in {"monitoring", "killed", "returned"} => (calls # <<>> /\ calls[1] = "submit")
    /\ pc = "start" => calls = <<>>
    /\ (pc = "monitoring" \/ result # "true") => calls \in {<<>>, <<"submit">>}
    /\ pc = "killed" => (result = "true" /\ calls = <<"submit", "kill">>)
    /\ (pc = "returned" /\ result = "true") => calls = <<"submit", "kill", "terminate">>
    /\ (pc = "monitoring" /\ result = "true") => ENABLED Kill
    /\ pc = "killed" => ENABLED Terminate

C12_Witness ==
    /\ pc = "returned"
    /\ result = "true"
    /\ HeuristicFired
    /\ calls = <<"submit", "kill", "terminate">>

HasMark(line) ==
    \/ Contains(line, SUCCESS_MARK)
    \/ Contains(line, ABORT_MARK)
    \/ Contains(line, TERM_MARK)

\* lines 150-179: a non-empty data-shaped line that does not parse as a record
Malformed(line) == line # <<>> /\ _is_increment_data_line(line) /\ ~ParseOk(line)

\* the places in the log where line i was emitted as the given kind
Emitted(kind, i) == {p \in 1..Len(out) : out[p].e = kind /\ out[p].i = i}

\* C14: every consumed non-empty data-shaped line with a wrong token count or a
\* non-numeric field is emitted verbatim exactly once instead of as a record,
\* feeds nothing to the tracker, and advances the consumed index.
C14_MalformedLogged ==
    \A j \in 1..Len(processed) :
        LET i == processed[j][1]
            e == processed[j][2]
        IN  (Malformed(Text(e)) /\ ~HasMark(Text(e))) =>
                /\ Cardinality({p \in Emitted("raw", i) : out[p].line = e}) = 1
                /\ Emitted("record", i) = {}
                /\ last_printed_line_index >= i

\* C15: the completion check comes before any other classification: on the
\* first unconsumed line holding a completion marker the monitor returns in that
\* poll, true for a success marker (even beside an abort or terminated marker)
\* and false otherwise; that line and the lines after it are not emitted, not
\* fed to the tracker and not recorded as consumed.
C15_CompletionFirst ==
    /\ Len(samples) = Cardinality({p \in 1..Len(out) : out[p].e = "record"})
    /\ \A j \in 1..Len(processed) :
          LET i == processed[j][1]
              line == Text(processed[j][2])
          IN  HasMark(line) =>
                  /\ j = Len(processed)
                  /\ result = (IF Contains(line, SUCCESS_MARK) THEN "true" ELSE "false")
                  /\ last_printed_line_index < i
                  /\ \A p \in 1..Len(out) : out[p].i < i
                  /\ out[Len(out)].e = (IF result = "true" THEN "done" ELSE "fail")

C15_Witness ==
    /\ processed # <<>>
    /\ Len(file) > processed[Len(processed)][1] + 1
    /\ LastSeen.k \in {"both", "hdrSucc"}
    /\ Complete(LastSeen)
    /\ result = "true"
    /\ samples # <<>>

\* C16: the first successfully parsed record only sets the previous kinetic
\* energy: after it the minimum is absent, the streak is 0 and no stop is
\* signalled, whatever its value.
C16_FirstSample ==
    Len(samples) = 1 =>
        /\ previous_ke = Some(samples[1])
        /\ min_ke = None
        /\ ke_increasing_count = 0
        /\ \A p \in 1..Len(out) : out[p].e \notin {"rising", "stop"}
        /\ result # "running" => (processed # <<>> /\ HasMark(Text(LastSeen)))

C16_Witness ==
    /\ script = <<>>
    /\ Len(samples) = 1
    /\ previous_ke = Some(MaxKE)

\* C17, as stated: a sample that finds the minimum absent, or is strictly below
\* it, sets the minimum to its value, resets the streak to 0 and signals no stop.
C17_NewMinimumAny ==
    [][(samples' # samples /\ (min_ke = None \/ samples'[Len(samples')] < min_ke[1])) =>
           /\ min_ke' = Some(samples'[Len(samples')])
           /\ ke_increasing_count' = 0
           /\ result' = "running"]_vars

\* C17, amended: a sample other than the first that finds the minimum absent, or
\* is strictly below it, sets the minimum to its value, resets the streak to 0
\* whatever it was (1 or 2), and signals no stop.
C17_NewMinimum ==
    [][(/\ samples' # samples
        /\ previous_ke # None
        /\ (min_ke = None \/ samples'[Len(samples')] < min_ke[1])) =>
           /\ min_ke' = Some(samples'[Len(samples')])
           /\ ke_increasing_count' = 0
           /\ previous_ke' = Some(samples'[Len(samples')])
           /\ result' = "running"
           /\ out' = out]_vars

C17_Witness ==
    /\ script = <<>>
    /\ Len(samples) = 5
    /\ samples[3] > samples[2]
    /\ samples[4] > samples[3]
    /\ samples[5] < samples[2]
    /\ min_ke = Some(samples[5])
    /\ ke_increasing_count = 0
    /\ result = "running"

\* C18: lines outside the progress table are never consumed: while no poll has
\* seen the anchor the monitor emits no line (its log holds at most the waiting
\* notices of absent polls) and its state stays initial; once the anchor is at
\* index a, no line of index below a + 2 is classified, emitted or fed to the
\* tracker.
C18_OutsideTable ==
    /\ (polled = <<>> \/ ~HasAnchor(polled[1])) =>
           /\ monitor = <<0 - 1, FALSE, None, None, 0>>
           /\ processed = <<>>
           /\ samples = <<>>
           /\ result = "running"
           /\ \A p \in 1..Len(out) : out[p].e = "notice"
    /\ HasAnchor(file) =>
           LET a == _find_solution_progress_section(file)
           IN  /\ \A j \in 1..Len(processed) : processed[j][1] >= a + 2
               /\ \A p \in 1..Len(out) : out[p].i >= 0 => out[p].i >= a + 2
               /\ last_printed_line_index >= 0 => last_printed_line_index >= a + 2
               /\ Len(samples) <= Max(0, Len(file) - (a + 2))

C18_Witness ==
    /\ HasAnchor(file)
    /\ _find_solution_progress_section(file) = 1
    /\ file[1].k \in {"succ", "text"}
    /\ Len(file) = 4
    /\ last_printed_line_index = 3
    /\ Len(processed) = 1

\* C19: a consumed header-pattern line without a completion marker produces no
\* emission and changes no tracker state, but the consumed index advances to
\* its index (a poll that consumes just that line changes nothing else).
C19_HeaderLine ==
    [][(/\ Len(processed') = Len(processed) + 1
        /\ processed'[Len(processed')][2].k \in {"hdrStep", "hdrCols", "hdrInc"}
        /\ Complete(processed'[Len(processed')][2])) =>
           /\ out' = out
           /\ UNCHANGED <<header_printed, previous_ke, min_ke, ke_increasing_count,
                          samples, result>>
           /\ last_printed_line_index' = processed'[Len(processed')][1]]_vars

C19_Witness ==
    \E j \in 1..Len(processed) :
        /\ processed[j][2].k = "hdrStep"
        /\ Complete(processed[j][2])
        /\ samples # <<>>
        /\ \A p \in 1..Len(out) : out[p].i # processed[j][1]
        /\ last_printed_line_index = processed[j][1]

\* C20: the column header is emitted at most once in a session, immediately
\* before the first formatted record; header_printed is true exactly when at
\* least one record has been parsed, so a malformed line never sets it.
C20_HeaderOnce ==
    LET H == {p \in 1..Len(out) : out[p].e = "header"}
        R == {p \in 1..Len(out) : out[p].e = "record"}
    IN  /\ Cardinality(H) <= 1
        /\ header_printed <=> samples # <<>>
        /\ header_printed <=> R # {}
        /\ header_printed <=> H # {}
        /\ Cardinality(R) = Len(samples)
        /\ \A h \in H : /\ h < Len(out)
                        /\ out[h + 1].e = "record"
                        /\ out[h + 1].i = out[h].i
                        /\ \A r \in R : r > h

C20_Witness ==
    /\ Len(samples) = 2
    /\ header_printed
    /\ \E p \in 1..Len(out) :
          /\ out[p].e = "raw"
          /\ Malformed(Text(out[p].line))
          /\ p < Len(out)
          /\ out[p + 1].e = "header"

\* lines 28-32: the line begins with one of the two noise prefixes
NoisePrefix(line) ==
    \/ StartsWith(line, <<W("INSTANCE"), W("WITH"), W("CRITICAL")>>)
    \/ StartsWith(line, <<W("Output"), W("Field"), W("Frame")>>)

\* lines 141-151: the line reaches the last branch of the loop body
OtherLine(line) ==
    /\ ~HasMark(line)
    /\ ~_is_header_line(line)
    /\ ~_is_increment_data_line(line)

\* lines 157-181: the log entries that stand for lines appear in index order
InIndexOrder ==
    \A p, q \in 1..Len(out) :
        (p < q /\ out[p].i >= 0 /\ out[q].i >= 0) =>
            /\ out[p].i <= out[q].i
            /\ (out[p].e = "raw" \/ out[q].e = "raw") => out[p].i < out[q].i

\* C21, as stated: every consumed line that is not a completion, header or
\* increment-shaped line is dropped if it begins with a noise prefix and is
\* otherwise emitted verbatim exactly once; emissions are in index order.
C21_OtherLinesAny ==
    /\ InIndexOrder
    /\ \A j \in 1..Len(processed) :
          LET i == processed[j][1]
              e == processed[j][2]
          IN  OtherLine(Text(e)) =>
                  IF NoisePrefix(Text(e))
                  THEN \A p \in 1..Len(out) : out[p].i # i
                  ELSE /\ Cardinality(Emitted("raw", i)) = 1
                       /\ \A p \in Emitted("raw", i) : out[p].line = e

\* C21, amended: the same for every consumed non-empty line; an empty line is
\* dropped without emission.
C21_OtherLines ==
    /\ InIndexOrder
    /\ \A j \in 1..Len(processed) :
          LET i == processed[j][1]
              e == processed[j][2]
          IN  OtherLine(Text(e)) =>
                  IF NoisePrefix(Text(e)) \/ Text(e) = <<>>
                  THEN \A p \in 1..Len(out) : out[p].i # i
                  ELSE /\ Cardinality(Emitted("raw", i)) = 1
                       /\ \A p \in Emitted("raw", i) : out[p].line = e
                       /\ \A p \in 1..Len(out) : out[p].i = i => out[p].e = "raw"

C21_Witness ==
    /\ Len(samples) = 2
    /\ \E p \in 2..(Len(out) - 1) :
          /\ out[p].e = "raw"
          /\ out[p].line.k \in {"text", "alpha"}
          /\ out[p - 1].e = "record"
          /\ out[p + 1].e = "record"
          /\ out[p - 1].i < out[p].i
          /\ out[p].i < out[p + 1].i

\* C22: the monitor has no timeout: it reaches a terminal state only in a poll
\* that reads the file and meets a completion line or completes three strict
\* increases in a row; while the file is absent, and on every other step, it
\* stays in its polling loop with its outcome open.
C22_NoTimeout ==
    [][/\ (result = "running" /\ result' # "running") =>
             /\ exists
             /\ polled' = <<file>>
             /\ processed' # processed
             /\ LET n == Len(samples')
                    seen == processed'[Len(processed')][2]
                IN  \/ HasMark(Text(seen))
                    \/ /\ n >= 4
                       /\ samples' # samples
                       /\ samples'[n] > samples'[n - 1]
                       /\ samples'[n - 1] > samples'[n - 2]
                       /\ samples'[n - 2] > samples'[n - 3]
       /\ result # "running" => result' = result
       /\ ~exists' => result' = "running"
       /\ (monitor' # monitor \/ result' # result) => polled' = <<file>>
       /\ (result' = "running" /\ pc = "monitoring") => pc' = "monitoring"]_vars

C22_Witness ==
    /\ absent_polls = MaxAbsent
    /\ Len(samples) = 5
    /\ ke_increasing_count = 2
    /\ result = "running"
    /\ pc = "monitoring"
    /\ reread

\* C23: with wait false the job is submitted, the monitor is never started and
\* neither kill() nor the terminate command is issued; the monitor runs only
\* after the submission and only with wait true.
C23_NoWait ==
    /\ ~wait =>
          /\ pc \in {"start", "submitted", "returned"}
          /\ polled = <<>>
          /\ absent_polls = 0
          /\ out = <<>>
          /\ result = "running"
          /\ monitor = <<0 - 1, FALSE, None, None, 0>>
          /\ calls = (IF pc = "start" THEN <<>> ELSE <<"submit">>)
    /\ (pc = "monitoring" \/ polled # <<>> \/ absent_polls > 0 \/ out # <<>>) =>
          /\ wait
          /\ calls # <<>>
          /\ calls[1] = "submit"

C23_Witness ==
    /\ ~wait
    /\ pc = "returned"
    /\ calls = <<"submit">>
    /\ alive
    /\ Len(file) > Len(TableHead) + 1
    /\ file[Len(file)].k = "succ"

\* C24: early stop is never signalled before the fifth parsed record: the first
\* only sets the previous kinetic energy, the second becomes the minimum, and
\* three more are needed to bring the streak to 3.
C24_FifthAtEarliest ==
    LET n == Len(samples)
    IN  /\ ke_increasing_count <= Max(0, n - 2)
        /\ n <= 1 => min_ke = None
        /\ n = 2 => min_ke = Some(samples[2])
        /\ (\E p \in 1..Len(out) : out[p].e \in {"rising", "stop"}) => n >= 5
        /\ (n < 5 /\ processed = <<>>) => result = "running"

C24_Witness ==
    /\ script = <<>>
    /\ Len(samples) = 5
    /\ samples[2] >= samples[1]
    /\ HeuristicFired
    /\ result = "true"

\* C25: while the session runs the streak is 0, 1 or 2, and it is 0 whenever
\* the minimum is absent; the streak is exactly 3 when stop is signalled, and
\* the record that triggers the stop is logged before the stop notice.
C25_StreakRange ==
    /\ ke_increasing_count \in 0..StopStreak
    /\ result = "running" => ke_increasing_count \in 0..2
    /\ min_ke = None => ke_increasing_count = 0
    /\ ke_increasing_count = StopStreak <=>
          (\E p \in 1..Len(out) : out[p].e = "stop")
    /\ \A p \in 1..Len(out) :
          out[p].e = "stop" =>
              /\ p = Len(out)
              /\ p >= 3
              /\ result = "true"
              /\ out[p - 1].e = "rising"
              /\ out[p - 2].e = "record"
              /\ out[p - 2].line.ke = samples[Len(samples)]
              /\ out[p - 2].i = processed[Len(processed)][1]

C25_Witness ==
    /\ HeuristicFired
    /\ ke_increasing_count = 3
    /\ Len(samples) = 5
    /\ min_ke = Some(samples[2])
    /\ out[Len(out) - 2].e = "record"

\* C26: the second parsed sample always becomes the minimum with streak 0, even
\* when it is above the first; so a sequence that rises strictly from its first
\* sample on is stopped on its fifth sample, and from the second sample on the
\* minimum is at most the previous kinetic energy while the session runs.
C26_SecondIsMinimum ==
    LET n == Len(samples)
        rising == \A k \in 2..n : samples[k] > samples[k - 1]
    IN  /\ n = 2 =>
              /\ min_ke = Some(samples[2])
              /\ ke_increasing_count = 0
              /\ result = "running"
        /\ (n >= 2 /\ result = "running") =>
              /\ min_ke # None
              /\ previous_ke = Some(samples[n])
              /\ min_ke[1] <= previous_ke[1]
        /\ (rising /\ n \in 2..4) =>
              /\ result = "running"
              /\ ke_increasing_count = n - 2
              /\ min_ke = Some(samples[2])
        /\ (rising /\ n >= 5) => (n = 5 /\ result = "true" /\ HeuristicFired)

C26_Witness ==
    /\ script = TraceC
    /\ samples = TraceC
    /\ min_ke = Some(2)
    /\ result = "true"
    /\ HeuristicFired

\* C27: an increment-shaped line of exactly seven tokens is not made a record:
\* it is emitted verbatim, leaves the previous and minimum kinetic energy, the
\* streak and the header flag unchanged, and is consumed; only lines of at
\* least eight tokens reach the tracker.
C27_SevenTokens ==
    [][/\ (/\ Len(processed') = Len(processed) + 1
           /\ _is_increment_data_line(Text(processed'[Len(processed')][2]))
           /\ Len(Text(processed'[Len(processed')][2])) = 7) =>
              /\ out' = Append(out, Emit("raw", processed'[Len(processed')][1],
                                         processed'[Len(processed')][2]))
              /\ UNCHANGED <<header_printed, previous_ke, min_ke, ke_increasing_count,
                             samples, result>>
              /\ last_printed_line_index' = processed'[Len(processed')][1]
       /\ \A p \in 1..Len(out') :
              out'[p].e = "record" => Len(Text(out'[p].line)) >= 8
       /\ Len(samples') = Cardinality({p \in 1..Len(out') : out'[p].e = "record"})]_vars

C27_Witness ==
    /\ Len(samples) = 2
    /\ \E j \in 1..Len(processed) :
          /\ processed[j][2].k \in {"short7", "data"}
          /\ Len(Text(processed[j][2])) = 7
          /\ Emitted("raw", processed[j][1]) # {}
          /\ Emitted("record", processed[j][1]) = {}
          /\ last_printed_line_index > processed[j][1]

\* C28: the model input read from a case file holds the impactor mass in tons,
\* the case's imp_mass_kg divided by 1000, the same value generate_configs
\* gives for that parameter set.
C28_CaseMassInTons ==
    \A i \in 1..Len(inputs) :
        /\ inputs[i].imp_mass = Real(cases[i].parameters.imp_mass_kg) \div Thousand
        /\ i <= Len(configs) => inputs[i].imp_mass = configs[i].imp_mass

\* C29: split_study_into_cases makes one case per element of the Cartesian
\* product of the value lists, numbered 1..N in product order (the last
\* parameter varying fastest), and returns N case files and N job names, job
\* name i being the study name followed by i.
C29_AllCombinations ==
    LET L == study.parameters
        N == Len(L[1]) * Len(L[2]) * Len(L[3])
    IN  /\ Len(cases) \in {0, N}
        /\ Len(job_names) = Len(cases)
        /\ \A i \in 1..Len(cases) :
              /\ cases[i].case_id = i
              /\ job_names[i] = JobName(study.study_name, i)
              /\ cases[i].parameters =
                    [imp_mass_kg |-> L[1][((i - 1) \div (Len(L[2]) * Len(L[3]))) + 1],
                     width |-> L[2][(((i - 1) \div Len(L[3])) % Len(L[2])) + 1],
                     material |-> L[3][((i - 1) % Len(L[3])) + 1]]
        /\ cases # <<>> =>
              \A a \in 1..Len(L[1]), b \in 1..Len(L[2]), c \in 1..Len(L[3]) :
                  LET i == (a - 1) * Len(L[2]) * Len(L[3]) + (b - 1) * Len(L[3]) + c
                  IN  cases[i].parameters =
                          [imp_mass_kg |-> L[1][a], width |-> L[2][b],
                           material |-> L[3][c]]

C29_Witness ==
    /\ study.parameters = << <<2, 5>>, <<100, 150>>, <<"MatA", "MatB">> >>
    /\ Len(cases) = 8
    /\ Len(job_names) = 8
    /\ cases[2].parameters = [imp_mass_kg |-> 2, width |-> 100, material |-> "MatB"]
    /\ cases[5].parameters = [imp_mass_kg |-> 5, width |-> 100, material |-> "MatA"]

====
